---- MODULE Spec2Model ----
(***************************************************************************)
(* Message orchestration of the WhatsApp agent: the Redis-coordinated      *)
(* entry agent (handleIncomingMessage / processUserBatch), the shared      *)
(* orchestrator state (batch list, processing lock, generation counter,    *)
(* in-process abort-controller map) and the batch processor with its       *)
(* final check before sending.                                             *)
(*                                                                         *)
(* Every Redis command is one atomic step; the JavaScript that runs        *)
(* between two awaits is folded into the step of the command it follows.   *)
(***************************************************************************)
EXTENDS Integers, Sequences, FiniteSets, TLC

\* ---------------------------------------------------------------- bounds
MaxEvents == 3          \* events submitted during one behaviour
MaxInFlight == 2        \* handleIncomingMessage calls in flight at once
NumInstances == 2       \* server processes sharing the store
MaxStale == 1           \* largest generation value already in the store at start
MaxExpiries == 1        \* lock keys that expire under a running call
MaxOther == 1           \* events of senders other than "A"
MaxMessages == 3        \* messages of a batch whose contents are combined

\* ------------------------------------------------------ program constants
maxBatchSize == 5

Events == 1..MaxEvents
Instances == 1..NumInstances
Senders == {"A", "B"}

\* Events already queued in the store when the processes start (the batch
\* list outlives a process: it expires only after 300 s).  They belong to
\* sender "A" and carry the ids 101, 102, ...
PriorBatch(n) == [k \in 1..n |-> 100 + k]
PriorLens == {0, maxBatchSize - 2}
AllEvents == Events \cup {100 + k : k \in 1..(maxBatchSize - 2)}

Range(q) == {q[k] : k \in 1..Len(q)}

VARIABLES
    batch,              \* Redis list orchestrator:batch:<sender>
    lock,               \* Redis key orchestrator:lock:<sender> exists
    generation,         \* Redis key orchestrator:generation:<sender>, 0 = absent
    abortControllers,   \* per process: the global Map "<sender>:<generation>" -> controller
    hnd,                \* one handleIncomingMessage call per event
    run,                \* the processUserBatch call scheduled by that handler
    drainCount,         \* history: how many drained batches contained the event
    expiries,           \* history: number of lock keys expired so far
    others,             \* history: number of events submitted for other senders
    redisClient,        \* per process: getRedisClient() returned a client
    messageContents,    \* processBatch: the contents of the batch it was given
    combinedMessage     \* processBatch: combinedMessage, once it is computed

vars == <<batch, lock, generation, abortControllers, hnd, run, drainCount, expiries, others,
          redisClient, messageContents, combinedMessage>>

\* A processUserBatch call: its position, its locals (processingGeneration,
\* messages, the abort flag of its current controller) and its history:
\*   drained   it has read a non-empty batch
\*   sent      sendMessage calls it has made; reply: the unit answered;
\*   lost      the send of the reply failed
\*   window    events appended while the lock was held and its timer pending
\*   midGen    the unit in generation and the events appended during it
\*   midCheck  the unit answered and the events appended before the send
\*   reset     a RESET was handled while it was scheduled or running
\*   recorded  the pair (combined message, reply) of its current unit has
\*             been added to the session history
NoRun == [pc |-> "none", s |-> "A", i |-> 1, gen |-> 0, msgs |-> <<>>,
          aborted |-> FALSE, drained |-> FALSE, sent |-> 0, reply |-> <<>>,
          window |-> {}, midGen |-> {}, midCheck |-> {}, reset |-> FALSE,
          lost |-> FALSE, recorded |-> FALSE]
DoneRun == [NoRun EXCEPT !.pc = "done"]

\* A handleIncomingMessage call: its position, its arguments (phoneNumber,
\* userMessage as a sequence of characters) and the process it runs in.
NoHnd == [pc |-> "idle", s |-> "A", i |-> 1, content |-> <<>>]
DoneHnd == [NoHnd EXCEPT !.pc = "done"]

\* Message texts received: the command in upper case, the command in mixed
\* case between white space, and a text that only starts with the word.
Contents == { <<"R", "E", "S", "E", "T">>,
              <<" ", "r", "e", "S", "e", "t", "\n">>,
              <<"r", "e", "s", "e", "t", " ", "m", "e">> }

\* line 24: userMessage.trim().toUpperCase() === 'RESET'
WhiteSpace == {" ", "\t", "\n", "\r"}
LowerCase == <<"e", "m", "r", "s", "t">>
UpperCase == <<"E", "M", "R", "S", "T">>

RECURSIVE trimStart(_)
trimStart(c) ==
    IF c # <<>> /\ Head(c) \in WhiteSpace THEN trimStart(Tail(c)) ELSE c

RECURSIVE trimEnd(_)
trimEnd(c) ==
    IF c # <<>> /\ c[Len(c)] \in WhiteSpace THEN trimEnd(SubSeq(c, 1, Len(c) - 1)) ELSE c

\* A plausible bug: the comparison is made without trimming.
trimNothing(c) == c

trim(c) == trimEnd(trimStart(c))

toUpperCase(c) ==
    [k \in 1..Len(c) |->
        IF \E j \in 1..Len(LowerCase) : LowerCase[j] = c[k]
        THEN UpperCase[CHOOSE j \in 1..Len(LowerCase) : LowerCase[j] = c[k]]
        ELSE c[k]]

IsResetCommand(c) == toUpperCase(trim(c)) = <<"R", "E", "S", "E", "T">>

\* -------------------------------------------------------- combineMessages
\* Contents of the messages of a batch: a plain word, a word between
\* spaces, two words with two spaces between them, and a blank message.
Texts == { <<"h", "i">>,
           <<" ", "y", "o", " ">>,
           <<"a", " ", " ", "b">>,
           <<" ">> }

NotCombined == [done |-> FALSE, text |-> <<>>]

\* processor.ts line 22: .filter(msg => msg.length > 0)
nonEmpty(m) == Len(m) > 0

\* processor.ts line 23: .join(' ')
RECURSIVE join(_)
join(ms) ==
    IF ms = <<>> THEN <<>>
    ELSE IF Len(ms) = 1 THEN ms[1]
    ELSE ms[1] \o <<" ">> \o join(Tail(ms))

\* processor.ts line 24: .replace(/\s+/g, ' ')
RECURSIVE replaceWhiteSpaceRuns(_)
replaceWhiteSpaceRuns(c) ==
    IF c = <<>> THEN <<>>
    ELSE IF Head(c) \in WhiteSpace THEN <<" ">> \o replaceWhiteSpaceRuns(trimStart(c))
    ELSE <<Head(c)>> \o replaceWhiteSpaceRuns(Tail(c))

\* A plausible bug: the messages are joined newest first.
combineMessagesReversed(ms) ==
    IF Len(ms) = 1 THEN ms[1]
    ELSE trim(replaceWhiteSpaceRuns(join(SelectSeq(
             [k \in 1..Len(ms) |-> trim(ms[Len(ms) + 1 - k])], nonEmpty))))

\* processor.ts lines 14-26
combineMessages(ms) ==
    IF Len(ms) = 1 THEN ms[1]
    ELSE trim(replaceWhiteSpaceRuns(join(SelectSeq(
             [k \in 1..Len(ms) |-> trim(ms[k])], nonEmpty))))

\* ----------------------------------------------------- store primitives
\* redis-state.ts getProcessingGeneration: an absent key reads as 1
getProcessingGeneration(s) == IF generation[s] = 0 THEN 1 ELSE generation[s]

\* redis-state.ts incrementProcessingGeneration: INCR (absent key counts as 0)
incrementProcessingGeneration(s) == generation[s] + 1

\* redis-state.ts isProcessing: EXISTS on the lock key
isProcessing(s) == lock[s]

\* redis-state.ts getBatchSize: LLEN
getBatchSize(s) == Len(batch[s])

\* A plausible bug: the map key is built from the generation alone.
setAbortControllerByGeneration(reg, s, g, r) ==
    {t \in reg : t[2] # g} \cup {<<s, g, r>>}

\* redis-state.ts setAbortController: Map.set under "<phone>:<generation>"
setAbortController(reg, s, g, r) ==
    {t \in reg : ~(t[1] = s /\ t[2] = g)} \cup {<<s, g, r>>}

\* redis-state.ts getAbortController: the entries stored under that key
getAbortController(reg, s, g) == {t \in reg : t[1] = s /\ t[2] = g}

\* redis-entry-agent.ts getProcessingStatus (lines 207-216) as answered by
\* process i: EXISTS on the lock key and LLEN on the batch key; without a
\* client the two reads return false and 0 (redis-state.ts 105 and 175)
getProcessingStatus(s, i) ==
    [isProcessing    |-> redisClient[i] /\ isProcessing(s),
     pendingMessages |-> IF redisClient[i] THEN getBatchSize(s) ELSE 0]

\* redis-state.ts getStats (lines 317-338): KEYS batch:* and KEYS lock:*;
\* a list key exists exactly while the list is not empty
batchKeys == {s \in Senders : Len(batch[s]) > 0}
lockKeys == {s \in Senders : lock[s]}

getStats(i) ==
    IF ~redisClient[i]
    THEN [activeUsers |-> 0, totalBatches |-> 0, processingUsers |-> 0]
    ELSE [activeUsers     |-> Cardinality(batchKeys),
          totalBatches    |-> Cardinality(batchKeys),
          processingUsers |-> Cardinality(lockKeys)]

Active(r) == run[r].pc \in {"getBatch", "clear", "generate", "recheck",
                            "aborted", "release"}
Scheduled(r) == run[r].pc \in {"timer", "immediate"}
InFlight == {e \in Events : hnd[e].pc \notin {"idle", "done"}}

\* What the processes find when they start, one leftover at a time: an old
\* batch of sender "A", an old generation counter, or no store client in
\* the last process (getRedisClient() returned nothing).
Leftovers ==
    {x \in PriorLens \X (0..MaxStale) \X BOOLEAN :
        /\ x[1] = 0 \/ x[2] = 0
        /\ x[3] \/ (x[1] = 0 /\ x[2] = 0)}

Init ==
    /\ \E x \in Leftovers :
          /\ batch = [s \in Senders |-> IF s = "A" THEN PriorBatch(x[1]) ELSE <<>>]
          /\ generation = [s \in Senders |-> x[2]]
          /\ redisClient = [i \in Instances |-> i < NumInstances \/ x[3]]
    /\ lock = [s \in Senders |-> FALSE]
    /\ abortControllers = [i \in Instances |-> {}]
    /\ hnd = [e \in Events |-> NoHnd]
    /\ run = [e \in Events |-> NoRun]
    /\ drainCount = [e \in AllEvents |-> 0]
    /\ expiries = 0
    /\ others = 0
    /\ messageContents = <<>>
    /\ combinedMessage = NotCombined

\* ------------------------------------------------- handleIncomingMessage
\* Events are submitted in the order of their ids; processes are
\* interchangeable, so the first event is received by process 1.
CanSubmit(e, s) ==
    /\ hnd[e].pc = "idle"
    /\ \A d \in Events : d < e => hnd[d].pc # "idle"
    /\ Cardinality(InFlight) < MaxInFlight
    /\ s # "A" => others < MaxOther

ReceivedBy(e) == IF e = 1 THEN {1} ELSE Instances

\* History: the runs of sender s that a newly arriving event or command meets.
MeetAppend(e, s) ==
    [r \in Events |->
        IF run[r].s = s /\ run[r].pc = "timer" /\ lock[s]
        THEN [run[r] EXCEPT !.window = @ \cup {e}]
        ELSE IF run[r].s = s /\ run[r].pc = "generate"
        THEN [run[r] EXCEPT !.midGen = @ \cup Range(run[r].msgs) \cup {e}]
        ELSE IF run[r].s = s /\ run[r].pc = "recheck"
        THEN [run[r] EXCEPT !.midCheck = @ \cup Range(run[r].msgs) \cup {e}]
        ELSE run[r]]

MeetReset(s) ==
    [r \in Events |->
        IF run[r].s = s /\ (Scheduled(r) \/ Active(r)) /\ run[r].pc # "release"
        THEN [run[r] EXCEPT !.reset = TRUE]
        ELSE run[r]]

\* lines 35-45: a text message is appended to the sender's batch (RPUSH);
\* redis-state.ts line 121: without a client addMessageToBatch just returns
AddMessageToBatch(e, s, i, c) ==
    /\ CanSubmit(e, s)
    /\ ~IsResetCommand(c)
    /\ i \in ReceivedBy(e)
    /\ others' = others + (IF s = "A" THEN 0 ELSE 1)
    /\ batch' = IF redisClient[i] THEN [batch EXCEPT ![s] = Append(@, e)] ELSE batch
    /\ hnd' = [hnd EXCEPT ![e] = [pc |-> "check", s |-> s, i |-> i, content |-> c]]
    /\ run' = IF redisClient[i] THEN MeetAppend(e, s) ELSE run
    /\ UNCHANGED <<lock, generation, abortControllers, drainCount, expiries,
                   redisClient, messageContents, combinedMessage>>

\* lines 22-26: a RESET command is recognised before anything is added to
\* the batch.  The branch uses the session store and the lock key only, so
\* it is placed on process 1, which has a client.
ReceiveReset(e, s, c) ==
    /\ CanSubmit(e, s)
    /\ IsResetCommand(c)
    /\ others' = others + (IF s = "A" THEN 0 ELSE 1)
    /\ hnd' = [hnd EXCEPT ![e] = [pc |-> "reset", s |-> s, i |-> 1, content |-> c]]
    /\ UNCHANGED <<batch, lock, generation, abortControllers, run, drainCount, expiries,
                   redisClient, messageContents, combinedMessage>>

\* lines 27-33: RESET clears the session, confirms and returns; the
\* orchestrator's batch, lock and generation keys are not touched
HandleReset(e) ==
    /\ hnd[e].pc = "reset"
    /\ hnd' = [hnd EXCEPT ![e] = DoneHnd]
    /\ run' = MeetReset(hnd[e].s)
    /\ UNCHANGED <<batch, lock, generation, abortControllers, drainCount, expiries, others,
                   redisClient, messageContents, combinedMessage>>

\* lines 27-28 throw (the Redis session store's set fails): the catch of
\* lines 96-99 deletes the sender's lock key
HandleResetFailed(e) ==
    /\ hnd[e].pc = "reset"
    /\ hnd' = [hnd EXCEPT ![e] = DoneHnd]
    /\ lock' = [lock EXCEPT ![hnd[e].s] = FALSE]
    /\ UNCHANGED <<batch, generation, abortControllers, run, drainCount, expiries, others,
                   redisClient, messageContents, combinedMessage>>

\* line 48: isProcessing decides between interruption and acquisition;
\* redis-state.ts line 105: without a client isProcessing is false
IsProcessingCheck(e) ==
    /\ hnd[e].pc = "check"
    /\ hnd' = [hnd EXCEPT ![e].pc = IF redisClient[hnd[e].i] /\ isProcessing(hnd[e].s)
                                    THEN "incr" ELSE "acquire"]
    /\ UNCHANGED <<batch, lock, generation, abortControllers, run, drainCount, expiries, others,
                   redisClient, messageContents, combinedMessage>>

\* line 54: incrementProcessingGeneration
IncrementGeneration(e) ==
    /\ hnd[e].pc = "incr"
    /\ generation' = [generation EXCEPT ![hnd[e].s] = incrementProcessingGeneration(hnd[e].s)]
    /\ hnd' = [hnd EXCEPT ![e].pc = "abort"]
    /\ UNCHANGED <<batch, lock, abortControllers, run, drainCount, expiries, others,
                   redisClient, messageContents, combinedMessage>>

\* redis-state.ts abortCurrentProcessing: the key looked up is the current
\* (already incremented) generation; a controller found is removed and
\* aborted.  The controller of run r stored under g is the one r still uses
\* exactly when r's processingGeneration is g.
AbortKey(s) == getProcessingGeneration(s)

AbortCurrentProcessing(e) ==
    LET s == hnd[e].s
        i == hnd[e].i
        found == getAbortController(abortControllers[i], s, AbortKey(s))
        hit == {t[3] : t \in {u \in found : run[u[3]].gen = u[2]}}
    IN  /\ hnd[e].pc = "abort"
        /\ abortControllers' = [abortControllers EXCEPT ![i] = @ \ found]
        /\ run' = [r \in Events |-> IF r \in hit THEN [run[r] EXCEPT !.aborted = TRUE] ELSE run[r]]
        /\ hnd' = [hnd EXCEPT ![e] = DoneHnd]
        /\ UNCHANGED <<batch, lock, generation, drainCount, expiries, others,
                       redisClient, messageContents, combinedMessage>>

\* lines 77-94: run processUserBatch now when the batch is full, else arm
\* the one-shot timer
FireImmediately(s) == getBatchSize(s) >= maxBatchSize

\* lines 69-94 and redis-state.ts acquireProcessingLock (SET NX EX): the
\* handler that sets the key schedules the sender's processUserBatch; the
\* one that finds it set returns.  Without a client (redis-state.ts lines
\* 59 and 175) the lock counts as acquired though no key is set, the batch
\* size reads 0 and the timer is armed.
AcquireLock(e) ==
    /\ hnd[e].pc = "acquire"
    /\ hnd' = [hnd EXCEPT ![e] = DoneHnd]
    /\ IF ~redisClient[hnd[e].i]
       THEN /\ run' = [run EXCEPT ![e] = [NoRun EXCEPT !.pc = "timer",
                                                      !.s = hnd[e].s, !.i = hnd[e].i]]
            /\ UNCHANGED lock
       ELSE IF lock[hnd[e].s]
       THEN UNCHANGED <<lock, run>>
       ELSE /\ lock' = [lock EXCEPT ![hnd[e].s] = TRUE]
            /\ run' = [run EXCEPT ![e] = [NoRun EXCEPT
                           !.pc = IF FireImmediately(hnd[e].s) THEN "immediate" ELSE "timer",
                           !.s = hnd[e].s, !.i = hnd[e].i]]
    /\ UNCHANGED <<batch, generation, abortControllers, drainCount, expiries, others,
                   redisClient, messageContents, combinedMessage>>

\* ------------------------------------------------------ processUserBatch
\* A plausible bug: the call goes on without looking at the lock key.
StartWithoutCheck(r) ==
    LET s == run[r].s
        g == getProcessingGeneration(s)
    IN  /\ Scheduled(r)
        /\ run' = [run EXCEPT ![r].pc = "getBatch", ![r].gen = g, ![r].aborted = FALSE]
        /\ abortControllers' = [abortControllers EXCEPT
                                   ![run[r].i] = setAbortController(@, s, g, r)]
        /\ UNCHANGED <<batch, lock, generation, hnd, drainCount, expiries, others,
                       redisClient, messageContents, combinedMessage>>

\* lines 86-88 and 111-118: the call starts (at once, or when the 2000 ms
\* timer fires) and skips everything when the lock key no longer exists
\* lines 120-125 follow: read the generation and store a fresh controller
\* under it
StartCheck(r) ==
    LET s == run[r].s
        g == getProcessingGeneration(s)
    IN  /\ Scheduled(r)
        /\ IF redisClient[run[r].i] /\ isProcessing(s)
           THEN /\ run' = [run EXCEPT ![r].pc = "getBatch", ![r].gen = g,
                                      ![r].aborted = FALSE]
                /\ abortControllers' = [abortControllers EXCEPT
                                           ![run[r].i] = setAbortController(@, s, g, r)]
           ELSE /\ run' = [run EXCEPT ![r] = DoneRun]
                /\ UNCHANGED abortControllers
        /\ UNCHANGED <<batch, lock, generation, hnd, drainCount, expiries, others,
                       redisClient, messageContents, combinedMessage>>

\* A plausible bug: the read returns the newest message only (LRANGE -1 -1).
GetBatchNewestOnly(r) ==
    LET s == run[r].s
        messages == IF batch[s] = <<>> THEN <<>> ELSE <<batch[s][Len(batch[s])]>>
    IN  /\ run[r].pc = "getBatch"
        /\ IF Len(messages) = 0
           THEN /\ run' = [run EXCEPT ![r].pc = "release", ![r].msgs = messages,
                                      ![r].window = {}]
                /\ UNCHANGED drainCount
           ELSE /\ run' = [run EXCEPT ![r].pc = "clear", ![r].msgs = messages,
                                      ![r].drained = TRUE, ![r].window = {}]
                /\ drainCount' = [e \in AllEvents |->
                                     IF e \in Range(messages) THEN drainCount[e] + 1
                                     ELSE drainCount[e]]
        /\ UNCHANGED <<batch, lock, generation, abortControllers, hnd, expiries, others,
                       redisClient, messageContents, combinedMessage>>

\* lines 132-138: LRANGE 0 -1; an empty batch ends the run
GetBatch(r) ==
    LET s == run[r].s
        messages == batch[s]
    IN  /\ run[r].pc = "getBatch"
        /\ IF Len(messages) = 0
           THEN /\ run' = [run EXCEPT ![r].pc = "release", ![r].msgs = messages,
                                      ![r].window = {}]
                /\ UNCHANGED drainCount
           ELSE /\ run' = [run EXCEPT ![r].pc = "clear", ![r].msgs = messages,
                                      ![r].drained = TRUE, ![r].window = {}]
                /\ drainCount' = [e \in AllEvents |->
                                     IF e \in Range(messages) THEN drainCount[e] + 1
                                     ELSE drainCount[e]]
        /\ UNCHANGED <<batch, lock, generation, abortControllers, hnd, expiries, others,
                       redisClient, messageContents, combinedMessage>>

\* lines 152-153: DEL of the batch key, whatever it holds by now
clearBatch(s) == [batch EXCEPT ![s] = <<>>]

ClearBatch(r) ==
    /\ run[r].pc = "clear"
    /\ batch' = clearBatch(run[r].s)
    /\ run' = [run EXCEPT ![r].pc = "generate"]
    /\ UNCHANGED <<lock, generation, abortControllers, hnd, drainCount, expiries, others,
                   redisClient, messageContents, combinedMessage>>

\* A plausible bug: the abort signal is not looked at after the generation
\* call has returned.
ProcessBatchIgnoresAbort(r) ==
    /\ run[r].pc = "generate"
    /\ run' = [run EXCEPT ![r].pc = "recheck", ![r].recorded = TRUE]
    /\ UNCHANGED <<batch, lock, generation, abortControllers, hnd, drainCount, expiries, others,
                   redisClient, messageContents, combinedMessage>>

\* processor.ts lines 34-101: session lookup, typing indicator, generation
\* call, abort checks (lines 55, 66, 88), then the pair is added to the
\* session history.  processUserMessage swallows its own errors, so the
\* call always yields a text; an aborted signal raises AbortError at line
\* 88, before the addMessage calls of lines 95-96.
ProcessBatch(r) ==
    /\ run[r].pc = "generate"
    /\ run' = [run EXCEPT ![r].pc = IF run[r].aborted THEN "aborted" ELSE "recheck",
                          ![r].recorded = ~run[r].aborted]
    /\ UNCHANGED <<batch, lock, generation, abortControllers, hnd, drainCount, expiries, others,
                   redisClient, messageContents, combinedMessage>>

\* processor.ts lines 44-101: a session-store write throws (store.ts set).
\* Lines 115-123 send the fallback message; when the state update of line
\* 121 throws as well, the error reaches lines 185-195 of processUserBatch,
\* which send a second error message.
ProcessBatchThrows(r, again) ==
    /\ run[r].pc = "generate"
    /\ run' = [run EXCEPT ![r].pc = "release",
                          ![r].sent = @ + (IF again THEN 2 ELSE 1)]
    /\ UNCHANGED <<batch, lock, generation, abortControllers, hnd, drainCount, expiries, others,
                   redisClient, messageContents, combinedMessage>>

\* processor.ts checkForNewMessagesBeforeSending: a non-empty batch bumps
\* the generation and raises AbortError, an empty one sends the response.
\* sendMessage (whatsapp messaging) catches a failed send, logs it and
\* returns false; line 158 ignores the result.
NewMessagesBeforeSending(s) == Len(batch[s]) > 0

\* A plausible bug: a failed send of the reply makes the run process the
\* unit again.
CheckRetriesFailedSend(r, delivered) ==
    LET s == run[r].s
    IN  /\ run[r].pc = "recheck"
        /\ ~NewMessagesBeforeSending(s)
        /\ run' = [run EXCEPT ![r].pc = IF delivered THEN "release" ELSE "generate",
                              ![r].sent = @ + 1,
                              ![r].reply = run[r].msgs,
                              ![r].lost = ~delivered]
        /\ UNCHANGED <<batch, lock, generation, abortControllers, hnd, drainCount, expiries, others,
                       redisClient, messageContents, combinedMessage>>

CheckForNewMessagesBeforeSending(r, delivered) ==
    LET s == run[r].s
    IN  /\ run[r].pc = "recheck"
        /\ IF NewMessagesBeforeSending(s)
           THEN /\ delivered      \* nothing is sent on this branch
                /\ generation' = [generation EXCEPT ![s] = incrementProcessingGeneration(s)]
                /\ run' = [run EXCEPT ![r].pc = "aborted"]
           ELSE /\ run' = [run EXCEPT ![r].pc = "release",
                                      ![r].sent = @ + 1,
                                      ![r].reply = run[r].msgs,
                                      ![r].lost = ~delivered]
                /\ UNCHANGED generation
        /\ UNCHANGED <<batch, lock, abortControllers, hnd, drainCount, expiries, others,
                       redisClient, messageContents, combinedMessage>>

\* lines 161-177: restart only when the generation has grown; otherwise
\* the AbortError is dropped and the loop ends.  A restart keeps nothing of
\* the messages read before: the next unit is whatever getBatch reads.
ShouldRestart(r) == getProcessingGeneration(run[r].s) > run[r].gen

\* A plausible bug: every AbortError restarts the loop.
AbortedCheckAlwaysRestarts(r) ==
    LET s == run[r].s
        g == getProcessingGeneration(s)
    IN  /\ run[r].pc = "aborted"
        /\ run' = [run EXCEPT ![r].pc = "getBatch", ![r].gen = g,
                              ![r].aborted = FALSE, ![r].recorded = FALSE]
        /\ abortControllers' = [abortControllers EXCEPT
                                   ![run[r].i] = setAbortController(@, s, g, r)]
        /\ UNCHANGED <<batch, lock, generation, hnd, drainCount, expiries, others,
                       redisClient, messageContents, combinedMessage>>

AbortedCheck(r) ==
    LET s == run[r].s
        g == getProcessingGeneration(s)
    IN  /\ run[r].pc = "aborted"
        /\ IF ShouldRestart(r)
           THEN /\ run' = [run EXCEPT ![r].pc = "getBatch", ![r].gen = g,
                                      ![r].aborted = FALSE, ![r].recorded = FALSE]
                /\ abortControllers' = [abortControllers EXCEPT
                                           ![run[r].i] = setAbortController(@, s, g, r)]
           ELSE /\ run' = [run EXCEPT ![r].pc = "release"]
                /\ UNCHANGED abortControllers
        /\ UNCHANGED <<batch, lock, generation, hnd, drainCount, expiries, others,
                       redisClient, messageContents, combinedMessage>>

\* A plausible bug: the lock is released only after a message was sent.
ReleaseLockAfterSendOnly(r) ==
    /\ run[r].pc = "release"
    /\ lock' = [lock EXCEPT ![run[r].s] = IF run[r].sent > 0 THEN FALSE ELSE @]
    /\ run' = [run EXCEPT ![r] = DoneRun]
    /\ UNCHANGED <<batch, generation, abortControllers, hnd, drainCount, expiries, others,
                   redisClient, messageContents, combinedMessage>>

\* lines 196-201 and redis-state.ts releaseProcessingLock: DEL of the lock key
ReleaseLock(r) ==
    /\ run[r].pc = "release"
    /\ lock' = [lock EXCEPT ![run[r].s] = FALSE]
    /\ run' = [run EXCEPT ![r] = DoneRun]
    /\ UNCHANGED <<batch, generation, abortControllers, hnd, drainCount, expiries, others,
                   redisClient, messageContents, combinedMessage>>

\* A server process dies while one of its processUserBatch calls holds a
\* sender's lock (redis-entry-agent.ts lines 69-94 and 105-202 keep the
\* timer, the loop and the abort controllers in process memory only): its
\* calls and its abort-controller map are gone, the store keeps the keys.
\* One process dies per behaviour.
Crashed(s) == \E r \in Events : run[r].pc = "crashed" /\ run[r].s = s

Crash(i) ==
    /\ \A r \in Events : run[r].pc # "crashed"
    /\ \E r \in Events : run[r].i = i /\ (Scheduled(r) \/ Active(r)) /\ lock[run[r].s]
    /\ run' = [r \in Events |->
                  IF run[r].i = i /\ (Scheduled(r) \/ Active(r))
                  THEN [NoRun EXCEPT !.pc = "crashed", !.s = run[r].s, !.i = i]
                  ELSE run[r]]
    /\ hnd' = [e \in Events |->
                  IF e \in InFlight /\ hnd[e].i = i THEN DoneHnd ELSE hnd[e]]
    /\ abortControllers' = [abortControllers EXCEPT ![i] = {}]
    /\ UNCHANGED <<batch, lock, generation, drainCount, expiries, others,
                   redisClient, messageContents, combinedMessage>>

\* redis-state.ts line 69 (EX 30): the lock key expires; within a behaviour
\* this takes a generation call that outlasts the TTL, or a holder that died
LockExpire(s) ==
    /\ lock[s]
    /\ expiries < MaxExpiries
    /\ \E r \in Events : run[r].s = s /\ run[r].pc \in {"generate", "crashed"}
    /\ lock' = [lock EXCEPT ![s] = FALSE]
    /\ expiries' = expiries + 1
    /\ UNCHANGED <<batch, generation, abortControllers, hnd, run, drainCount, others,
                   redisClient, messageContents, combinedMessage>>

Next ==
    \/ \E e \in Events, s \in Senders, i \in Instances, c \in Contents :
          AddMessageToBatch(e, s, i, c)
    \/ \E e \in Events, s \in Senders, c \in Contents : ReceiveReset(e, s, c)
    \/ \E e \in Events : HandleReset(e)
    \/ \E e \in Events : HandleResetFailed(e)
    \/ \E e \in Events : IsProcessingCheck(e)
    \/ \E e \in Events : IncrementGeneration(e)
    \/ \E e \in Events : AbortCurrentProcessing(e)
    \/ \E e \in Events : AcquireLock(e)
    \/ \E r \in Events : StartCheck(r)
    \/ \E r \in Events : GetBatch(r)
    \/ \E r \in Events : ClearBatch(r)
    \/ \E r \in Events : ProcessBatch(r)
    \/ \E r \in Events, again \in BOOLEAN : ProcessBatchThrows(r, again)
    \/ \E r \in Events, delivered \in BOOLEAN : CheckForNewMessagesBeforeSending(r, delivered)
    \/ \E r \in Events : AbortedCheck(r)
    \/ \E r \in Events : ReleaseLock(r)
    \/ \E i \in Instances : Crash(i)
    \/ \E s \in Senders : LockExpire(s)

Spec == Init /\ [][Next]_vars

\* ------------------------------------------------------------ scheduling
\* The same processes with no process dying.  Every await of a handler or
\* of a run resumes: the store answers each command, the timer fires, and
\* the generation and delivery collaborators return.  Whether a message
\* arrives, a session write throws, a send fails or a key expires is left
\* open.
NextAlive ==
    \/ \E e \in Events, s \in Senders, i \in Instances, c \in Contents :
          AddMessageToBatch(e, s, i, c)
    \/ \E e \in Events, s \in Senders, c \in Contents : ReceiveReset(e, s, c)
    \/ \E e \in Events : HandleReset(e)
    \/ \E e \in Events : HandleResetFailed(e)
    \/ \E e \in Events : IsProcessingCheck(e)
    \/ \E e \in Events : IncrementGeneration(e)
    \/ \E e \in Events : AbortCurrentProcessing(e)
    \/ \E e \in Events : AcquireLock(e)
    \/ \E r \in Events : StartCheck(r)
    \/ \E r \in Events : GetBatch(r)
    \/ \E r \in Events : ClearBatch(r)
    \/ \E r \in Events : ProcessBatch(r)
    \/ \E r \in Events, again \in BOOLEAN : ProcessBatchThrows(r, again)
    \/ \E r \in Events, delivered \in BOOLEAN : CheckForNewMessagesBeforeSending(r, delivered)
    \/ \E r \in Events : AbortedCheck(r)
    \/ \E r \in Events : ReleaseLock(r)
    \/ \E s \in Senders : LockExpire(s)

HandlerStep(e) ==
    \/ HandleReset(e)
    \/ IsProcessingCheck(e)
    \/ IncrementGeneration(e)
    \/ AbortCurrentProcessing(e)
    \/ AcquireLock(e)

RunStep(r) ==
    \/ StartCheck(r)
    \/ GetBatch(r)
    \/ ClearBatch(r)
    \/ ProcessBatch(r)
    \/ \E delivered \in BOOLEAN : CheckForNewMessagesBeforeSending(r, delivered)
    \/ AbortedCheck(r)
    \/ ReleaseLock(r)

FairSpec ==
    /\ Init
    /\ [][NextAlive]_vars
    /\ \A e \in Events : WF_vars(HandlerStep(e))
    /\ \A r \in Events : WF_vars(RunStep(r))

\* ------------------------------------------- processBatch: combine alone
\* The contents of a batch in the order of their RPUSH (redis-state.ts
\* addMessageToBatch; getBatch returns the list in that order), and the
\* call of combineMessages on them (processor.ts lines 38-39).  The
\* orchestrator state plays no part and stays as it starts.
CombineInit ==
    /\ batch = [s \in Senders |-> <<>>]
    /\ generation = [s \in Senders |-> 0]
    /\ redisClient = [i \in Instances |-> TRUE]
    /\ lock = [s \in Senders |-> FALSE]
    /\ abortControllers = [i \in Instances |-> {}]
    /\ hnd = [e \in Events |-> NoHnd]
    /\ run = [e \in Events |-> NoRun]
    /\ drainCount = [e \in AllEvents |-> 0]
    /\ expiries = 0
    /\ others = 0
    /\ messageContents = <<>>
    /\ combinedMessage = NotCombined

ReceiveText(c) ==
    /\ ~combinedMessage.done
    /\ Len(messageContents) < MaxMessages
    /\ messageContents' = Append(messageContents, c)
    /\ UNCHANGED <<batch, lock, generation, abortControllers, hnd, run, drainCount,
                   expiries, others, redisClient, combinedMessage>>

CombineMessages ==
    /\ ~combinedMessage.done
    /\ Len(messageContents) >= 1
    /\ combinedMessage' = [done |-> TRUE, text |-> combineMessages(messageContents)]
    /\ UNCHANGED <<batch, lock, generation, abortControllers, hnd, run, drainCount,
                   expiries, others, redisClient, messageContents>>

CombineNext ==
    \/ \E c \in Texts : ReceiveText(c)
    \/ CombineMessages

CombineSpec == CombineInit /\ [][CombineNext]_vars

\* ================================================================ claims
RunsOf(s) == {r \in Events : run[r].pc # "none" /\ run[r].s = s}

\* A handler finishes the interruption path of lines 50-66.
Interrupts(e) ==
    /\ hnd[e].pc = "abort" /\ hnd'[e].pc = "done"
    /\ \A r \in Events : run'[r].pc = "crashed" => run[r].pc = "crashed"

\* The run ended by sending the fallback error message instead of a reply.
SentFallback(r) == run[r].sent >= 1 /\ run[r].reply = <<>>

\* C1: for every sender, at most one processUserBatch run is between its
\* start check and its lock release at any time.
AtMostOneUnit ==
    \A s \in Senders : Cardinality({r \in RunsOf(s) : Active(r)}) <= 1

\* C2: no event is lost: an event leaves the sender's batch only as part of
\* a batch that a processUserBatch run has read, also when it was appended
\* between the run's getBatch and its clearBatch.
NoEventLoss ==
    [][\A s \in Senders : \A e \in Range(batch[s]) :
          e \notin Range(batch'[s]) => drainCount'[e] >= 1]_vars

\* C3: when an event arrives while a run is inside the generation call, the
\* run ends having delivered exactly one reply, produced from a unit that
\* contains the unit then in generation and the new event.
RestartSuperset ==
    \A r \in Events :
        (run[r].pc = "release" /\ run[r].midGen # {} /\ ~SentFallback(r))
            => (run[r].sent = 1 /\ run[r].midGen \subseteq Range(run[r].reply))

\* C4: when an event is appended after the generation call returned and
\* before the reply is sent, that reply is not sent and the run ends having
\* delivered exactly one reply, produced from the old and the new events.
RecheckDiscard ==
    \A r \in Events :
        (run[r].pc = "release" /\ run[r].midCheck # {} /\ ~SentFallback(r))
            => (run[r].sent = 1 /\ run[r].midCheck \subseteq Range(run[r].reply))

\* C5: a run that drained a non-empty batch has sent exactly one message
\* (the reply or a fallback) when it comes to release the lock.
ExactlyOneMessage ==
    \A r \in Events :
        (run[r].pc = "release" /\ run[r].drained) => run[r].sent = 1

\* C6: when an event arrived while a run of the same process was inside the
\* generation call and the run is still there, the event's interruption
\* path signals the abort handle that the run registered.
AbortKeyedToRegistered ==
    [][\A e \in Events : Interrupts(e) =>
          \A r \in RunsOf(hnd[e].s) :
              (/\ run[r].i = hnd[e].i
               /\ run[r].pc = "generate"
               /\ e \in run[r].midGen \ Range(run[r].msgs))
                  => run'[r].aborted]_vars

\* C7: when a later event brings the batch to maxBatchSize while the lock is
\* held and the timer is armed, processing fires with that event's handler
\* and the timer is no longer pending.
MaxSizeEarlyFire ==
    [][\A e \in Events : Interrupts(e) =>
          \A r \in RunsOf(hnd[e].s) :
              (run[r].pc = "timer" /\ getBatchSize(hnd[e].s) >= maxBatchSize)
                  => run'[r].pc # "timer"]_vars

\* C8: the events appended while the lock is held and the run's timer is
\* pending are all contained in the batch the run reads when the timer fires.
DebounceArmedOnce ==
    [][\A r \in Events :
          (run[r].pc = "getBatch" /\ run'[r].pc \notin {"getBatch", "crashed"})
              => run[r].window \subseteq Range(run'[r].msgs)]_vars

\* Something is still going to read the sender's batch: a handler that has
\* yet to look at the lock, or a run that has yet to read or re-check.
WillBeRead(s) ==
    \/ \E e \in InFlight : hnd[e].s = s /\ hnd[e].pc \in {"check", "acquire"}
    \/ \E r \in RunsOf(s) : run[r].pc \in {"getBatch", "generate", "recheck", "aborted"}

\* C9: when a run that has delivered its reply releases the lock, no
\* submitted event is left in the batch unless something is still going to
\* read the batch; an event appended between the last batch read and the
\* release is not stranded.
NoStrandedEvent ==
    [][\A r \in Events :
          (run[r].pc = "release" /\ run[r].reply # <<>> /\ run'[r].pc = "done")
              => (Range(batch'[run[r].s]) \cap Events = {} \/ WillBeRead(run[r].s)')]_vars

\* C10: a RESET handled while a run is scheduled or running leaves the
\* sender's batch empty and the lock free, and the run sends no reply
\* afterwards.
ResetShortCircuits ==
    [][\A r \in Events :
          /\ (~run[r].reset /\ run'[r].reset)
                => (batch'[run[r].s] = <<>> /\ ~lock'[run[r].s])
          /\ (run[r].reset /\ run[r].reply = <<>>) => run'[r].reply = <<>>]_vars

\* C13: an AbortError whose re-read generation is not greater than the
\* generation the iteration was using is handled like a failure: the run
\* sends the fallback error message and goes on to release the lock.
CancellationIsAnError ==
    [][\A r \in Events :
          (run[r].pc = "aborted" /\ run'[r].pc \notin {"aborted", "crashed"} /\ ~ShouldRestart(r))
              => (run'[r].pc = "release" /\ run'[r].sent = run[r].sent + 1)]_vars

\* C14: a processUserBatch run that passed the start check ends only by
\* the step that deletes the sender's lock key, whatever path it took.
FinishReleasesLock ==
    [][\A r \in Events :
          (Active(r) /\ run'[r].pc = "done") => ~lock'[run[r].s]]_vars

\* A run whose event was drained has ended and the sender's lock is free.
FinishReleasesLockWitness ==
    \E r \in Events :
        /\ run[r].pc = "done"
        /\ drainCount[r] >= 1
        /\ ~lock["A"]
        /\ \A q \in Events : ~Active(q) /\ ~Scheduled(q)

\* C15: every increment of a sender's generation yields a value greater
\* than the value any active run of the sender read before, also when the
\* increment creates the counter; the value read never decreases.
GenerationStrictlyIncreases ==
    [][\A s \in Senders :
          /\ getProcessingGeneration(s)' >= getProcessingGeneration(s)
          /\ generation'[s] # generation[s]
                => \A r \in RunsOf(s) : Active(r) => generation'[s] > run[r].gen]_vars

\* C16: the sender's lock key does not expire while a processUserBatch run
\* of the sender is active.
LockDoesNotLapse ==
    [][\A s \in Senders :
          (lock[s] /\ ~lock'[s] /\ expiries' > expiries)
              => ~\E r \in RunsOf(s) : Active(r)]_vars

\* C17: no event is contained in more than one drained batch.
NoDoubleDrain == \A e \in AllEvents : drainCount[e] <= 1

\* C19: when sendMessage fails for the reply the run has made no other send,
\* is on its way to the lock release, and its next step is that release:
\* the drained events are neither processed again nor put back.
DeliveryFailureCompletes ==
    [][\A r \in Events :
          run[r].lost =>
              /\ run[r].pc = "release" /\ run[r].sent = 1
              /\ run'[r].pc \notin {run[r].pc, "crashed"} =>
                    /\ run'[r] = DoneRun
                    /\ ~lock'[run[r].s]
                    /\ batch' = batch
                    /\ drainCount' = drainCount]_vars

\* The send of a reply has failed and the run is about to release the lock.
DeliveryFailureWitness ==
    \E r \in Events : run[r].lost /\ run[r].reply # <<>> /\ lock[run[r].s]

\* C18: when processBatch fails with an error other than AbortError, the
\* run sends one fallback message, does not read the batch again and goes
\* on to release the lock.
GenerationFailure ==
    [][\A r \in Events :
          (run[r].pc = "generate" /\ run'[r].pc \notin {"generate", "recheck", "aborted", "crashed"})
              => (run'[r].pc = "release" /\ run'[r].sent = run[r].sent + 1)]_vars

\* C20: after a process died holding a sender's lock and the lock key has
\* expired, a handler of that sender that asks the store for the lock gets
\* it and schedules a run, and the batch such a run reads holds every event
\* still queued for the sender.
CrashRecovery ==
    [][\A e \in Events :
          /\ (/\ hnd[e].pc = "acquire" /\ hnd'[e].pc = "done"
              /\ Crashed(hnd[e].s) /\ ~lock[hnd[e].s] /\ redisClient[hnd[e].i])
                 => (lock'[hnd[e].s] /\ run'[e].pc \in {"timer", "immediate"})
          /\ (/\ run[e].pc = "getBatch" /\ run'[e].pc # "getBatch"
              /\ Crashed(run[e].s))
                 => /\ run'[e].msgs = batch[run[e].s]
                    /\ batch[run[e].s] # <<>> => run'[e].pc = "clear"]_vars

\* The process of event 1 died holding the lock, event 2 was queued while
\* the dead lock was held, and after the expiry event 3's run has drained
\* all three.
CrashRecoveryWitness ==
    /\ run[1].pc = "crashed" /\ run[1].s = "A"
    /\ hnd[2].pc = "done"
    /\ run[3].pc = "generate" /\ run[3].msgs = <<1, 2, 3>>
    /\ expiries = 1

\* C12: an event submitted to a process that has no store client is still
\* processed as a unit of its own: when the run its handler scheduled
\* starts, it goes on to process the event instead of ending at once.
StoreUnavailableLetsThrough ==
    [][\A r \in Events :
          (~redisClient[run[r].i] /\ Scheduled(r) /\ run'[r].pc \notin {run[r].pc, "crashed"})
              => run'[r].pc \in {"getBatch", "clear", "generate"}]_vars

\* The texts the claim calls a RESET: the five letters of the word, each in
\* either case, between any white space.
TrimmedEqualsReset(c) ==
    \E a, b \in 0..Len(c) :
        /\ a + 5 + b = Len(c)
        /\ \A k \in 1..a : c[k] \in WhiteSpace
        /\ \A k \in 1..b : c[a + 5 + k] \in WhiteSpace
        /\ c[a + 1] \in {"r", "R"} /\ c[a + 2] \in {"e", "E"} /\ c[a + 3] \in {"s", "S"}
        /\ c[a + 4] \in {"e", "E"} /\ c[a + 5] \in {"t", "T"}

\* C11: a message whose trimmed text is RESET in any letter case takes the
\* RESET branch: its handler never appends to the batch (the steps of the
\* branch leave every batch as it is) and the message is in no batch and in
\* no unit read by a run; a message on the batching path is not a RESET.
ResetNeverBatched ==
    [][\A e \in Events :
          /\ (hnd[e].pc = "idle" /\ hnd'[e].pc # "idle")
                => (TrimmedEqualsReset(hnd'[e].content) <=> hnd'[e].pc = "reset")
          /\ (hnd'[e].pc = "reset" /\ hnd[e].pc # "reset") => batch' = batch
          /\ (hnd[e].pc = "reset" /\ hnd'[e].pc # "reset") => batch' = batch
          /\ (hnd'[e].pc = "reset")
                => /\ \A s \in Senders : e \notin Range(batch'[s])
                   /\ \A r \in Events : e \notin Range(run'[r].msgs)
                   /\ drainCount'[e] = 0]_vars

\* A RESET in mixed case between white space has been handled while the
\* sender's batch held a queued event, which is still there.
ResetNeverBatchedWitness ==
    \E e \in Events :
        /\ hnd[e].pc = "reset" /\ hnd[e].s = "A"
        /\ hnd[e].content = <<" ", "r", "e", "S", "e", "t", "\n">>
        /\ batch["A"] # <<>>
        /\ e \notin Range(batch["A"])

\* The number of events pending over all the senders in S.
RECURSIVE TotalPendingEvents(_)
TotalPendingEvents(S) ==
    IF S = {} THEN 0
    ELSE LET s == CHOOSE x \in S : TRUE
         IN  Len(batch[s]) + TotalPendingEvents(S \ {s})

\* C21: what a process with a store client answers is accurate: the status
\* of a sender says isProcessing exactly when the sender's lock key exists
\* and pendingMessages is the length of the sender's batch, and the stats
\* report the total number of pending events over all senders.
StatusAndStatsAccurate ==
    \A i \in Instances : redisClient[i] =>
        /\ \A s \in Senders :
              /\ getProcessingStatus(s, i).isProcessing = lock[s]
              /\ getProcessingStatus(s, i).pendingMessages = Len(batch[s])
        /\ getStats(i).totalBatches = TotalPendingEvents(Senders)

\* C22: when the abort handle of the running iteration was signalled during
\* the generation call and the call returns a text all the same, the step
\* that ends the call raises AbortError: the run goes to the handling of
\* the abort, and the unit's pair is not recorded and its reply not sent.
AbortedOutputDiscarded ==
    [][\A r \in Events :
          (/\ run[r].pc = "generate" /\ run[r].aborted
           /\ run'[r].pc \notin {"generate", "crashed"}
           /\ run'[r].sent = run[r].sent)
              => (/\ run'[r].pc = "aborted"
                  /\ ~run'[r].recorded
                  /\ run'[r].reply = <<>>)]_vars

\* A signalled run has left the generation call by AbortError.
AbortedOutputDiscardedWitness ==
    \E r \in Events : run[r].pc = "aborted" /\ run[r].aborted /\ run[r].msgs # <<>>

\* C24: the session history holds the pair of a unit only when the unit's
\* reply was delivered: a reply discarded at the final check leaves no pair
\* behind, and a run that comes to release the lock with its pair recorded
\* has delivered the reply.
HistoryOnlyDelivered ==
    [][\A r \in Events :
          /\ (run[r].pc = "recheck" /\ run'[r].pc = "aborted") => ~run'[r].recorded
          /\ (run'[r].pc = "release" /\ run'[r].recorded)
                => (run'[r].reply # <<>> /\ ~run'[r].lost)]_vars

\* C23: every abort handle in a process's registry belongs to a run of that
\* process that is between its start check and its lock release, for the
\* sender and under the generation the run is using.
AbortHandleLifecycle ==
    \A i \in Instances : \A t \in abortControllers[i] :
        /\ Active(t[3])
        /\ run[t[3]].i = i /\ run[t[3]].s = t[1] /\ run[t[3]].gen = t[2]

\* C25: a handleIncomingMessage call that took the RESET path and acquired
\* no lock leaves an existing lock key of the sender in place when it ends.
HandlerKeepsForeignLock ==
    [][\A e \in Events :
          (hnd[e].pc = "reset" /\ hnd'[e].pc = "done" /\ lock[hnd[e].s])
              => lock'[hnd[e].s]]_vars

\* C26: a processUserBatch call that finds no lock key at its start check
\* ends at once and changes nothing: no batch, lock key, generation or
\* abort handle, and nothing is drained or sent.
StartCheckSkips ==
    [][\A r \in Events :
          (/\ Scheduled(r) /\ ~lock[run[r].s]
           /\ run'[r].pc \notin {run[r].pc, "crashed"})
              => (/\ run'[r] = DoneRun
                  /\ batch' = batch /\ lock' = lock /\ generation' = generation
                  /\ abortControllers' = abortControllers
                  /\ drainCount' = drainCount)]_vars

\* The run scheduled for an event has ended though the event is still in
\* the batch, undrained, and the lock is free: the run was skipped.
StartCheckSkipsWitness ==
    \E r \in Events :
        /\ run[r].pc = "done" /\ hnd[r].pc = "done"
        /\ r \in Range(batch["A"]) /\ drainCount[r] = 0
        /\ ~lock["A"]
        /\ \A q \in Events : ~Active(q) /\ ~Scheduled(q)

\* C27: a handler that saw the lock free and then finds it taken arms no
\* timer, leaves the generation and the abort handles alone, and leaves
\* its event to the holder of the lock: the event is still in the batch
\* or has been drained.
LostRaceHarmless ==
    [][\A e \in Events :
          (/\ hnd[e].pc = "acquire" /\ hnd'[e].pc = "done"
           /\ redisClient[hnd[e].i] /\ lock[hnd[e].s]
           /\ \A r \in Events : run'[r].pc = "crashed" => run[r].pc = "crashed")
              => (/\ run' = run
                  /\ generation' = generation
                  /\ abortControllers' = abortControllers
                  /\ batch' = batch
                  /\ e \in Range(batch[hnd[e].s]) \/ drainCount[e] >= 1)]_vars

\* The senders on whose behalf the step is taken: the sender of each
\* handleIncomingMessage call and of each processUserBatch call that moves.
ActingSenders ==
    {IF hnd[e].pc = "idle" THEN hnd'[e].s ELSE hnd[e].s :
        e \in {d \in Events : hnd'[d] # hnd[d]}}
    \cup {run[r].s : r \in {q \in Events : run'[q] # run[q] /\ run[q].pc \notin {"none", "done"}}}

HandlesOf(reg, s) == {t \in reg : t[1] = s}

\* C29: a step of a handler or of a run of one sender leaves the batch, the
\* lock key, the generation counter and the abort handles of every other
\* sender as they were.  (The death of a process and the expiry of a key
\* are not operations performed for a sender.)
CrossSenderIsolation ==
    [][(/\ expiries' = expiries
        /\ \A r \in Events : run'[r].pc = "crashed" => run[r].pc = "crashed")
          => \A s \in Senders \ ActingSenders :
                /\ batch'[s] = batch[s]
                /\ lock'[s] = lock[s]
                /\ generation'[s] = generation[s]
                /\ \A i \in Instances :
                      HandlesOf(abortControllers'[i], s) = HandlesOf(abortControllers[i], s)]_vars

\* Two senders have an abort handle registered in the same process under
\* the same generation, and both runs are in the generation call.
CrossSenderIsolationWitness ==
    \E i \in Instances : \E t, u \in abortControllers[i] :
        /\ t[1] = "A" /\ u[1] = "B" /\ t[2] = u[2]
        /\ run[t[3]].pc = "generate" /\ run[u[3]].pc = "generate"
        /\ run[t[3]].s = "A" /\ run[u[3]].s = "B"

\* The trimmed non-empty contents joined by single spaces, in list order.
JoinedTrimmed(ms) ==
    join(SelectSeq([k \in 1..Len(ms) |-> trim(ms[k])], nonEmpty))

\* C30, as stated: the combined text of one message is the message, and
\* that of several messages is their trimmed non-empty contents joined by
\* single spaces in list order.
CombineJoinsTrimmed ==
    combinedMessage.done =>
        combinedMessage.text = IF Len(messageContents) = 1 THEN messageContents[1]
                               ELSE JoinedTrimmed(messageContents)

\* The words of a text: its maximal runs of characters other than white space.
FirstWordLen(c) ==
    CHOOSE n \in 1..Len(c) :
        /\ \A k \in 1..n : c[k] \notin WhiteSpace
        /\ n = Len(c) \/ c[n + 1] \in WhiteSpace

RECURSIVE Words(_)
Words(c) ==
    LET d == trimStart(c)
    IN  IF d = <<>> THEN <<>>
        ELSE <<SubSeq(d, 1, FirstWordLen(d))>>
                 \o Words(SubSeq(d, FirstWordLen(d) + 1, Len(d)))

RECURSIVE AllWords(_)
AllWords(ms) == IF ms = <<>> THEN <<>> ELSE Words(ms[1]) \o AllWords(Tail(ms))

SingleSpaced(c) ==
    /\ \A k \in 1..Len(c) : c[k] \in WhiteSpace => c[k] = " "
    /\ \A k \in 1..(Len(c) - 1) : ~(c[k] = " " /\ c[k + 1] = " ")
    /\ c # <<>> => (c[1] # " " /\ c[Len(c)] # " ")

\* C30, amended: the combined text of one message is the message; that of
\* several messages consists of the words of the messages in list order,
\* separated by single spaces (white space inside a message is normalised
\* as well).
CombinePreservesOrder ==
    combinedMessage.done =>
        IF Len(messageContents) = 1 THEN combinedMessage.text = messageContents[1]
        ELSE /\ Words(combinedMessage.text) = AllWords(messageContents)
             /\ SingleSpaced(combinedMessage.text)

\* Several messages were combined and white space inside one of them was
\* normalised: the result is not the plain join of the trimmed contents.
CombinePreservesOrderWitness ==
    /\ combinedMessage.done
    /\ Len(messageContents) >= 2
    /\ combinedMessage.text # JoinedTrimmed(messageContents)
    /\ combinedMessage.text # <<>>

\* No handleIncomingMessage call and no processUserBatch call is under way
\* or scheduled, and no lock key exists.
Quiescent ==
    /\ InFlight = {}
    /\ \A r \in Events : ~Scheduled(r) /\ ~Active(r)
    /\ \A s \in Senders : ~lock[s]

\* C28: the events being finitely many and every collaborator returning,
\* every processUserBatch run ends and the locks are free from some point
\* on; and the loop goes back to getBatch only when the generation it
\* re-reads is greater than the one the iteration was using.
LoopTerminates ==
    /\ [][\A r \in Events :
            (run[r].pc = "aborted" /\ run'[r].pc = "getBatch")
                => (getProcessingGeneration(run[r].s) > run[r].gen
                    /\ run'[r].gen > run[r].gen)]_vars
    /\ <>[]Quiescent

\* All the events were submitted, a loop has restarted under a grown
\* generation, every event was drained and everything has come to rest.
LoopTerminatesWitness ==
    /\ Quiescent
    /\ \A e \in Events : hnd[e].pc = "done" /\ drainCount[e] >= 1
    /\ generation["A"] >= 2
====
